---------------------------- MODULE Spec2Model ----------------------------
(***************************************************************************)
(* The messaging / conversation layer of the therapy application           *)
(* (contexts/MessagingContext.tsx and the chat screen that drives it):     *)
(* a flat message table at a remote store, conversations derived from it  *)
(* on the client, real-time INSERT / UPDATE events, and the asynchronous   *)
(* operations loadConversations, loadMessages, sendMessage, markAsRead and *)
(* createConversation.                                                     *)
(*                                                                         *)
(* Strings that the code builds and takes apart (participant ids,          *)
(* conversation ids, message bodies) are sequences of one-character        *)
(* strings, so that sort(), join(), replace(), split() and trim() are      *)
(* computed and not assumed.                                               *)
(***************************************************************************)
EXTENDS Integers, Sequences, FiniteSets, TLC

(***************************************************************************)
(* Bounds of the model.                                                    *)
(***************************************************************************)
\* longest participant id drawn for the id derivation
MaxIdLen == 2
\* rows the message table may hold
MaxMsgs == 2
\* operations the user and the other users may start, first deliveries of
\* channel events included
MaxOps == 4
\* awaited calls (loads, sends, creates) in flight at once
MaxInFlight == 2
\* times the channel may deliver one event
MaxDeliveries == 2

(***************************************************************************)
(* Characters and JavaScript's string order.                               *)
(***************************************************************************)
\* UTF-16 code unit of each character the model uses
CodeOf(c) ==
  CASE c = " " -> 32
    [] c = "-" -> 45
    [] c = "1" -> 49
    [] c = "_" -> 95
    [] c = "a" -> 97
    [] c = "b" -> 98
    [] c = "c" -> 99
    [] c = "h" -> 104
    [] c = "n" -> 110
    [] c = "o" -> 111
    [] c = "v" -> 118

\* s < t in the order Array.prototype.sort() uses without a comparator:
\* code unit by code unit, a proper prefix first
RECURSIVE StrLess(_, _)
StrLess(s, t) ==
  IF t = << >> THEN FALSE
  ELSE IF s = << >> THEN TRUE
  ELSE IF CodeOf(Head(s)) < CodeOf(Head(t)) THEN TRUE
  ELSE IF CodeOf(Head(s)) > CodeOf(Head(t)) THEN FALSE
  ELSE StrLess(Tail(s), Tail(t))

\* [a, b] left as written: the sort dropped
UnsortedPair(a, b) == << a, b >>

\* [a, b].sort()
SortPair(a, b) == IF StrLess(b, a) THEN << b, a >> ELSE << a, b >>

\* the separator glued in twice
JoinDoubled(p) == p[1] \o << "_", "_" >> \o p[2]

\* pair.join('_')
JoinPair(p) == p[1] \o << "_" >> \o p[2]

\* the literal 'conv_' of the template strings and of replace()
ConvPrefix == << "c", "o", "n", "v", "_" >>

\* `conv_${conversationKey}` of createConversation
CreateConversationId(userId, otherUserId) ==
  ConvPrefix \o JoinPair(SortPair(userId, otherUserId))

\* `conv_${conversationKey}` of loadConversations' grouping
LoadConversationsId(userId, otherUserId) ==
  ConvPrefix \o JoinPair(SortPair(userId, otherUserId))

\* expectedConversationId of the INSERT event handler
InsertHandlerId(userId, senderId) ==
  ConvPrefix \o JoinPair(SortPair(userId, senderId))

\* first index at which pat occurs in s, 0 when it does not
IndexOf(s, pat) ==
  LET hits == { i \in 1..(Len(s) - Len(pat) + 1) :
                  SubSeq(s, i, i + Len(pat) - 1) = pat }
  IN IF hits = {} THEN 0 ELSE CHOOSE i \in hits : \A j \in hits : i <= j

\* s.replace(pat, ''): the first occurrence removed, wherever it is
ReplaceFirst(s, pat) ==
  LET i == IndexOf(s, pat)
  IN IF i = 0 THEN s
     ELSE SubSeq(s, 1, i - 1) \o SubSeq(s, i + Len(pat), Len(s))

\* s.split('_')
RECURSIVE SplitUnderscore(_)
SplitUnderscore(s) ==
  LET i == IndexOf(s, << "_" >>)
  IN IF i = 0 THEN << s >>
     ELSE << SubSeq(s, 1, i - 1) >> \o SplitUnderscore(SubSeq(s, i + 1, Len(s)))

\* userIds of loadMessages: conversationId.replace('conv_', '').split('_')
DecomposeConversationId(conversationId) ==
  SplitUnderscore(ReplaceFirst(conversationId, ConvPrefix))

\* message.trim(): leading and trailing spaces removed
RECURSIVE TrimLeft(_)
TrimLeft(s) ==
  IF s # << >> /\ Head(s) = " " THEN TrimLeft(Tail(s)) ELSE s

RECURSIVE TrimRight(_)
TrimRight(s) ==
  IF s # << >> /\ s[Len(s)] = " " THEN TrimRight(SubSeq(s, 1, Len(s) - 1)) ELSE s

Trim(s) == TrimRight(TrimLeft(s))


(***************************************************************************)
(* The users table: ids are uuids in the store (no '_' in them).           *)
(***************************************************************************)
U1 == << "b" >>
U2 == << "a" >>
U3 == << "b", "1" >>
Users == { U1, U2, U3 }

\* the users who sign in on this device: a client and a therapist
SignedIn == { U1, U2 }

\* users.role
Role(u) == IF u = U2 THEN "therapist" ELSE "client"

\* what the compose input may hold: nothing, blanks, text to be trimmed
Texts == { << >>, << " " >>, << " ", "h" >> }

VARIABLES
  \* ---- the remote store
  dbMessages,          \* the messages table, in insertion order
  \* ---- MessagingProvider's state
  userProfile,         \* id of the signed-in user
  conversations,       \* useState<Conversation[]>
  activeConversation,  \* useState<Conversation | null>
  messages,            \* useState<Message[]>
  subActive,           \* activeConversation as captured by the subscribed handlers
  \* ---- ChatScreen's state
  newMessage,          \* the compose input
  chatOpen,            \* whether the chat screen is mounted
  \* ---- awaited requests and channel events in flight
  convReqs,            \* loadConversations queries not yet run by the store
  convResps,           \* loadConversations responses not yet received
  msgLoads,            \* loadMessages calls between their query and their end
  sends,               \* sendMessage calls between their insert and their end
  creates,             \* createConversation calls awaiting the users row
  insertEvents,        \* INSERT events of the channel, with deliveries so far
  updateEvents,        \* UPDATE events of the channel, with deliveries so far
  \* ---- bookkeeping of the run (not read by the program)
  ops,                 \* operations started so far
  convInfo,            \* where the conversation list came from, whether
                       \* a loadConversations call failed since, and how
                       \* the promise of the last call that ended settled
  openDone,            \* the last loadMessages call that ended
  returned,            \* what createConversation calls returned
  \* ---- the id derivation on its own
  idA, idB, idPc, idSites, idParts

storeVars  == << dbMessages >>
clientVars == << userProfile, conversations, activeConversation, messages,
                 subActive, newMessage, chatOpen >>
flightVars == << convReqs, convResps, msgLoads, sends, creates,
                 insertEvents, updateEvents >>
ghostVars  == << ops, convInfo, openDone, returned >>
idVars     == << idA, idB, idPc, idSites, idParts >>
vars == << storeVars, clientVars, flightVars, ghostVars, idVars >>

\* activeConversation === null
NoConversation ==
  [ id |-> << >>, therapist_id |-> << >>, client_id |-> << >>,
    last_message_at |-> 0, last_message |-> 0, unread_count |-> 0 ]

\* no loadMessages call has ended; of one that has: its conversation id,
\* whether its query and every markAsRead update succeeded, the number of
\* rows the table held when the query ran, the fetched rows it had to mark
NoOpen == [ conv |-> << >>, clean |-> FALSE, upto |-> 0, fetched |-> {} ]

(***************************************************************************)
(* Generic helpers on sequences.                                           *)
(***************************************************************************)
RECURSIVE Reverse(_)
Reverse(s) == IF s = << >> THEN << >> ELSE Append(Reverse(Tail(s)), Head(s))

RECURSIVE SumSeq(_)
SumSeq(s) == IF s = << >> THEN 0 ELSE Head(s) + SumSeq(Tail(s))

Range(s) == { s[i] : i \in DOMAIN s }

\* s with its i-th element removed
RemoveAt(s, i) == SubSeq(s, 1, i - 1) \o SubSeq(s, i + 1, Len(s))

(***************************************************************************)
(* The store's primitives.                                                 *)
(***************************************************************************)
\* a row as insert() creates it: read defaults to false, created_at to now()
\* (cid and thru are not columns: they record, for the properties, the
\* conversationId a sendMessage call was given and the conversation that
\* was active when it was called; << >> on rows of other clients)
NewRow(db, sender, receiver, body, cid, thru) ==
  [ id |-> Len(db) + 1, sender_id |-> sender, receiver_id |-> receiver,
    message |-> body, read |-> FALSE, created_at |-> Len(db) + 1,
    cid |-> cid, thru |-> thru ]

\* .or(sender_id.eq.U, receiver_id.eq.U).order('created_at', desc)
SelectForUser(db, u) ==
  LET Mine(m) == m.sender_id = u \/ m.receiver_id = u
  IN Reverse(SelectSeq(db, Mine))

\* .or(and(sender=U, receiver=O), and(sender=O, receiver=U))
\*   .order('created_at', asc)
SelectForPair(db, u, o) ==
  LET Between(m) == \/ m.sender_id = u /\ m.receiver_id = o
                    \/ m.sender_id = o /\ m.receiver_id = u
  IN SelectSeq(db, Between)

\* update({ read: true }).eq('id', messageId) without effect
UpdateReadNoop(db, messageId) == db

\* update({ read: true }).eq('id', messageId)
UpdateRead(db, messageId) ==
  [ i \in DOMAIN db |->
      IF db[i].id = messageId THEN [ db[i] EXCEPT !.read = TRUE ] ELSE db[i] ]

(***************************************************************************)
(* loadConversations: the grouping of the fetched rows.                    *)
(***************************************************************************)
\* index of the entry of map whose id is id, 0 when there is none
EntryIndex(map, id) ==
  IF \E i \in DOMAIN map : map[i].id = id
  THEN CHOOSE i \in DOMAIN map : map[i].id = id
  ELSE 0

\* the unread test without the receiver: every unread row counts
IsUnread(message, u) == ~message.read

\* message.receiver_id === userProfile.id && !message.read
IsUnreadFor(message, u) == message.receiver_id = u /\ ~message.read

\* the object conversationsMap.set() stores for a first message
FirstEntry(message, u, otherUser) ==
  [ id              |-> LoadConversationsId(u, otherUser),
    therapist_id    |-> IF Role(otherUser) = "therapist" THEN otherUser ELSE u,
    client_id       |-> IF Role(otherUser) = "client" THEN otherUser ELSE u,
    last_message_at |-> message.created_at,
    last_message    |-> message.id,
    unread_count    |-> 0 ]

\* a round that takes every message as the last one, without comparing
GroupMessageOverwriting(map, message, u) ==
  LET otherUser == IF message.sender_id = u THEN message.receiver_id
                   ELSE message.sender_id
      id   == LoadConversationsId(u, otherUser)
      map1 == IF EntryIndex(map, id) = 0
              THEN Append(map, FirstEntry(message, u, otherUser))
              ELSE map
      i    == EntryIndex(map1, id)
      c1   == [ map1[i] EXCEPT !.last_message_at = message.created_at,
                               !.last_message = message.id ]
      c2   == IF IsUnreadFor(message, u)
              THEN [ c1 EXCEPT !.unread_count = @ + 1 ]
              ELSE c1
  IN [ map1 EXCEPT ![i] = c2 ]

\* one round of messagesData.forEach
GroupMessage(map, message, u) ==
  LET otherUser == IF message.sender_id = u THEN message.receiver_id
                   ELSE message.sender_id
      id   == LoadConversationsId(u, otherUser)
      map1 == IF EntryIndex(map, id) = 0
              THEN Append(map, FirstEntry(message, u, otherUser))
              ELSE map
      i    == EntryIndex(map1, id)
      c1   == IF message.created_at > map1[i].last_message_at
              THEN [ map1[i] EXCEPT !.last_message_at = message.created_at,
                                    !.last_message = message.id ]
              ELSE map1[i]
      c2   == IF IsUnreadFor(message, u)
              THEN [ c1 EXCEPT !.unread_count = @ + 1 ]
              ELSE c1
  IN [ map1 EXCEPT ![i] = c2 ]

\* messagesData.forEach(...) over the rows in the order fetched
RECURSIVE GroupAll(_, _, _)
GroupAll(map, data, u) ==
  IF data = << >> THEN map
  ELSE GroupAll(GroupMessage(map, Head(data), u), Tail(data), u)

\* c put into the list s by the comparator turned round (a - b)
RECURSIVE InsertByLastMessageAscending(_, _)
InsertByLastMessageAscending(s, c) ==
  IF s = << >> THEN << c >>
  ELSE IF c.last_message_at < Head(s).last_message_at THEN << c >> \o s
  ELSE << Head(s) >> \o InsertByLastMessageAscending(Tail(s), c)

\* c put into the sorted list s, behind the entries that are not older
RECURSIVE InsertByLastMessage(_, _)
InsertByLastMessage(s, c) ==
  IF s = << >> THEN << c >>
  ELSE IF c.last_message_at > Head(s).last_message_at THEN << c >> \o s
  ELSE << Head(s) >> \o InsertByLastMessage(Tail(s), c)

\* .sort((a, b) => time(b.last_message_at) - time(a.last_message_at)), stable
RECURSIVE SortByLastMessage(_)
SortByLastMessage(s) ==
  IF s = << >> THEN << >>
  ELSE InsertByLastMessage(SortByLastMessage(SubSeq(s, 1, Len(s) - 1)), s[Len(s)])

\* conversationsArray of loadConversations
ConversationsArray(data, u) == SortByLastMessage(GroupAll(<< >>, data, u))

(***************************************************************************)
(* The initial state: the provider has mounted for a signed-in user; its   *)
(* effect has called loadConversations() and subscribed the two handlers,  *)
(* which captured activeConversation === null.                             *)
(***************************************************************************)
\* the id derivation is not running
IdInit ==
  /\ idA = << >> /\ idB = << >> /\ idPc = "off"
  /\ idSites = << >> /\ idParts = << >>

\* the provider as it stands right after mounting for user u
Mounted(u) ==
  /\ userProfile = u
  /\ conversations = << >>
  /\ activeConversation = NoConversation
  /\ messages = << >>
  /\ subActive = NoConversation
  /\ newMessage = << >>
  /\ chatOpen = FALSE
  /\ convReqs = 1
  /\ convResps = << >>
  /\ msgLoads = << >>
  /\ sends = << >>
  /\ creates = << >>
  /\ insertEvents = {}
  /\ updateEvents = {}
  /\ ops = 0
  /\ convInfo = [ fromLoad |-> FALSE, seen |-> NoOpen, db |-> << >>,
                  failed |-> FALSE, outcome |-> "none" ]
  /\ openDone = NoOpen
  /\ returned = {}

Init ==
  /\ dbMessages = << >>
  /\ \E u \in SignedIn : Mounted(u)
  /\ IdInit

\* awaited calls that have not ended
InFlight ==
  convReqs + Len(convResps) + Len(msgLoads) + Len(sends) + Len(creates)

(***************************************************************************)
(* loadConversations                                                       *)
(***************************************************************************)
\* pull-to-refresh, or the messages screen mounting: loadConversations()
Refresh ==
  /\ ops < MaxOps
  /\ InFlight < MaxInFlight
  /\ convReqs' = convReqs + 1
  /\ ops' = ops + 1
  /\ UNCHANGED << storeVars, clientVars, convResps, msgLoads, sends, creates,
                  insertEvents, updateEvents, convInfo, openDone,
                  returned, idVars >>

\* the store runs the query of one loadConversations call
StoreSelectConversations ==
  /\ convReqs > 0
  /\ convReqs' = convReqs - 1
  /\ convResps' = Append(convResps,
                         [ data |-> SelectForUser(dbMessages, userProfile),
                           db   |-> dbMessages,
                           seen |-> openDone ])
  /\ UNCHANGED << storeVars, clientVars, msgLoads, sends, creates,
                  insertEvents, updateEvents, ghostVars, idVars >>

\* a failed query whose catch block empties the lists
LoadConversationsFailResetting ==
  /\ convReqs > 0
  /\ convReqs' = convReqs - 1
  /\ conversations' = << >>
  /\ messages' = << >>
  /\ convInfo' = [ convInfo EXCEPT !.failed = TRUE, !.outcome = "resolved" ]
  /\ UNCHANGED << storeVars, userProfile, activeConversation, subActive,
                  newMessage, chatOpen, convResps, msgLoads, sends, creates,
                  insertEvents, updateEvents, ops, openDone, returned,
                  idVars >>

\* the query fails: `if (error) throw error`, caught and logged
LoadConversationsFail ==
  /\ convReqs > 0
  /\ convReqs' = convReqs - 1
  /\ convInfo' = [ convInfo EXCEPT !.failed = TRUE, !.outcome = "resolved" ]
  /\ UNCHANGED << storeVars, clientVars, convResps, msgLoads, sends, creates,
                  insertEvents, updateEvents, ops, openDone, returned,
                  idVars >>

\* the rows arrive: group, sort, setConversations(conversationsArray)
LoadConversationsDone(i) ==
  /\ i \in DOMAIN convResps
  /\ conversations' = ConversationsArray(convResps[i].data, userProfile)
  /\ convInfo' = [ fromLoad |-> TRUE, seen |-> convResps[i].seen,
                   db |-> convResps[i].db, failed |-> FALSE,
                   outcome |-> "resolved" ]
  /\ convResps' = RemoveAt(convResps, i)
  /\ UNCHANGED << storeVars, userProfile, activeConversation, messages,
                  subActive, newMessage, chatOpen, convReqs, msgLoads, sends, creates,
                  insertEvents, updateEvents, ops, openDone,
                  returned, idVars >>

\* updateProfile() replaces userProfile: the provider's effect runs again,
\* calls loadConversations() and subscribes handlers that capture the
\* activeConversation of this render
ProfileChanged ==
  /\ ops < MaxOps
  /\ InFlight < MaxInFlight
  /\ convReqs' = convReqs + 1
  /\ subActive' = activeConversation
  /\ ops' = ops + 1
  /\ UNCHANGED << storeVars, userProfile, conversations, activeConversation,
                  messages, newMessage, chatOpen, convResps, msgLoads, sends, creates,
                  insertEvents, updateEvents, convInfo, openDone,
                  returned, idVars >>

(***************************************************************************)
(* Opening a conversation: initializeConversation, loadMessages and the    *)
(* markAsRead calls it awaits.                                             *)
(***************************************************************************)
\* userIds.find(id => id !== userProfile.id), << >> for undefined
FindOther(userIds, u) ==
  IF \E i \in DOMAIN userIds : userIds[i] # u
  THEN userIds[CHOOSE i \in DOMAIN userIds :
                 /\ userIds[i] # u
                 /\ \A j \in DOMAIN userIds : userIds[j] # u => i <= j]
  ELSE << >>

\* whether loadMessages gets as far as its query
QueryIssued(conversationId, u) ==
  /\ Len(DecomposeConversationId(conversationId)) = 2
  /\ FindOther(DecomposeConversationId(conversationId), u) # << >>

\* loadMessages(conversationId) up to its query: the id is taken apart
\* and the call ends at once, in its catch block, when no query is issued
LoadMessagesCall(conversationId) ==
  IF QueryIssued(conversationId, userProfile)
  THEN /\ msgLoads' = Append(msgLoads,
             [ conv  |-> conversationId,
               other |-> FindOther(DecomposeConversationId(conversationId),
                                   userProfile),
               phase |-> "req", data |-> << >>, upto |-> 0,
               marks |-> {}, clean |-> TRUE ])
       /\ UNCHANGED openDone
  ELSE /\ openDone' = [ conv |-> conversationId, clean |-> FALSE, upto |-> 0,
                        fetched |-> {} ]
       /\ UNCHANGED msgLoads

\* the chat screen mounts for a conversation of the list:
\* setActiveConversation(conversation); await loadMessages(conversationId)
OpenConversation(c) ==
  /\ ops < MaxOps
  /\ InFlight < MaxInFlight
  /\ c \in Range(conversations)
  /\ activeConversation' = c
  /\ newMessage' = << >>
  /\ chatOpen' = TRUE
  /\ sends' = [ k \in DOMAIN sends |-> [ sends[k] EXCEPT !.screen = FALSE ] ]
  /\ LoadMessagesCall(c.id)
  /\ ops' = ops + 1
  /\ UNCHANGED << storeVars, userProfile, conversations, messages, subActive,
                  convReqs, convResps, creates, insertEvents, updateEvents,
                  convInfo, returned, idVars >>

\* the user leaves the chat screen: the component unmounts and its state
\* is gone; it has no cleanup, the provider's state stays as it is
CloseConversation ==
  /\ ops < MaxOps
  /\ chatOpen
  /\ chatOpen' = FALSE
  /\ newMessage' = << >>
  /\ sends' = [ k \in DOMAIN sends |-> [ sends[k] EXCEPT !.screen = FALSE ] ]
  /\ ops' = ops + 1
  /\ UNCHANGED << storeVars, userProfile, conversations, activeConversation,
                  messages, subActive, convReqs, convResps, msgLoads, creates,
                  insertEvents, updateEvents, convInfo, openDone, returned,
                  idVars >>

\* ids a caller of loadMessages may pass that are in no conversation list:
\* one part, three parts, two equal parts
StrayConversationIds ==
  { ConvPrefix \o U2,
    ConvPrefix \o U2 \o << "_" >> \o U1 \o << "_" >> \o U3,
    ConvPrefix \o U3 \o << "_" >> \o U3 }

\* loadMessages(conversationId) called on the context for such an id
LoadMessages(conversationId) ==
  /\ ops < MaxOps
  /\ InFlight < MaxInFlight
  /\ conversationId \in StrayConversationIds
  /\ LoadMessagesCall(conversationId)
  /\ ops' = ops + 1
  /\ UNCHANGED << storeVars, clientVars, convReqs, convResps, sends, creates,
                  insertEvents, updateEvents, convInfo, returned, idVars >>

\* the store runs the query of one loadMessages call
StoreSelectMessages(i) ==
  /\ i \in DOMAIN msgLoads
  /\ msgLoads[i].phase = "req"
  /\ msgLoads' = [ msgLoads EXCEPT
       ![i].phase = "resp",
       ![i].data  = SelectForPair(dbMessages, userProfile, msgLoads[i].other),
       ![i].upto  = Len(dbMessages) ]
  /\ UNCHANGED << storeVars, clientVars, convReqs, convResps, sends, creates,
                  insertEvents, updateEvents, ghostVars, idVars >>

\* the query fails: caught and logged, loadMessages ends
LoadMessagesFail(i) ==
  /\ i \in DOMAIN msgLoads
  /\ msgLoads[i].phase = "req"
  /\ msgLoads' = RemoveAt(msgLoads, i)
  /\ openDone' = [ conv |-> msgLoads[i].conv, clean |-> FALSE, upto |-> 0,
                   fetched |-> {} ]
  /\ UNCHANGED << storeVars, clientVars, convReqs, convResps, sends, creates,
                  insertEvents, updateEvents, ops, convInfo,
                  returned, idVars >>

\* data?.filter(msg => msg.receiver_id === userProfile?.id && !msg.read)
UnreadMessages(data, u) ==
  LET Unread(m) == IsUnreadFor(m, u) IN SelectSeq(data, Unread)

\* the rows arrive: setMessages(data), then one markAsRead per unread row
LoadMessagesResponse(i) ==
  /\ i \in DOMAIN msgLoads
  /\ msgLoads[i].phase = "resp"
  /\ messages' = msgLoads[i].data
  /\ LET unread == UnreadMessages(msgLoads[i].data, userProfile)
     IN IF Len(unread) > 0
        THEN /\ msgLoads' = [ msgLoads EXCEPT
                  ![i].phase = "marking",
                  ![i].marks = { [ id |-> unread[k].id, st |-> "req" ] :
                                 k \in DOMAIN unread } ]
             /\ UNCHANGED openDone
        ELSE /\ msgLoads' = RemoveAt(msgLoads, i)
             /\ openDone' = [ conv |-> msgLoads[i].conv, clean |-> TRUE,
                              upto |-> msgLoads[i].upto, fetched |-> {} ]
  /\ UNCHANGED << storeVars, userProfile, conversations, activeConversation,
                  subActive, newMessage, chatOpen, convReqs, convResps, sends, creates,
                  insertEvents, updateEvents, ops, convInfo,
                  returned, idVars >>

\* the UPDATE events the channel owes this client for a changed row
UpdateEventsFor(row, u) ==
  IF row.sender_id = u THEN { [ id |-> row.id, n |-> 0 ] } ELSE {}

\* the store runs one markAsRead update
StoreMarkRead(i, mk) ==
  /\ i \in DOMAIN msgLoads
  /\ mk \in msgLoads[i].marks
  /\ mk.st = "req"
  /\ dbMessages' = UpdateRead(dbMessages, mk.id)
  /\ updateEvents' = updateEvents \cup UpdateEventsFor(dbMessages[mk.id], userProfile)
  /\ msgLoads' = [ msgLoads EXCEPT
       ![i].marks = (@ \ { mk }) \cup { [ id |-> mk.id, st |-> "ok" ] } ]
  /\ UNCHANGED << clientVars, convReqs, convResps, sends, creates,
                  insertEvents, ghostVars, idVars >>

\* a failing update that changes the row all the same
StoreMarkFailApplied(i, mk) ==
  /\ i \in DOMAIN msgLoads
  /\ mk \in msgLoads[i].marks
  /\ mk.st = "req"
  /\ dbMessages' = UpdateRead(dbMessages, mk.id)
  /\ msgLoads' = [ msgLoads EXCEPT
       ![i].marks = (@ \ { mk }) \cup { [ id |-> mk.id, st |-> "err" ] } ]
  /\ UNCHANGED << clientVars, convReqs, convResps, sends, creates,
                  insertEvents, updateEvents, ghostVars, idVars >>

\* one markAsRead update fails at the store
StoreMarkFail(i, mk) ==
  /\ i \in DOMAIN msgLoads
  /\ mk \in msgLoads[i].marks
  /\ mk.st = "req"
  /\ msgLoads' = [ msgLoads EXCEPT
       ![i].marks = (@ \ { mk }) \cup { [ id |-> mk.id, st |-> "err" ] } ]
  /\ UNCHANGED << storeVars, clientVars, convReqs, convResps, sends, creates,
                  insertEvents, updateEvents, ghostVars, idVars >>

\* a patch that flips the flag of the message instead of setting it
PatchReadFlipped(list, messageId, value) ==
  [ k \in DOMAIN list |->
      IF list[k].id = messageId THEN [ list[k] EXCEPT !.read = ~@ ]
      ELSE list[k] ]

\* prev.map(msg => msg.id === messageId ? { ...msg, read: true } : msg)
PatchRead(list, messageId, value) ==
  [ k \in DOMAIN list |->
      IF list[k].id = messageId THEN [ list[k] EXCEPT !.read = value ]
      ELSE list[k] ]

\* one markAsRead call returns: the local patch on success, a log on error;
\* when it was the last one, Promise.all resolves and loadMessages ends
MarkAsReadDone(i, mk) ==
  /\ i \in DOMAIN msgLoads
  /\ mk \in msgLoads[i].marks
  /\ mk.st # "req"
  /\ messages' = IF mk.st = "ok" THEN PatchRead(messages, mk.id, TRUE)
                 ELSE messages
  /\ LET clean == msgLoads[i].clean /\ mk.st = "ok"
     IN IF msgLoads[i].marks = { mk }
        THEN /\ msgLoads' = RemoveAt(msgLoads, i)
             /\ openDone' = [ conv |-> msgLoads[i].conv, clean |-> clean,
                              upto |-> msgLoads[i].upto,
                              fetched |-> { m.id : m \in Range(
                                UnreadMessages(msgLoads[i].data, userProfile)) } ]
        ELSE /\ msgLoads' = [ msgLoads EXCEPT ![i].marks = @ \ { mk },
                                              ![i].clean = clean ]
             /\ UNCHANGED openDone
  /\ UNCHANGED << storeVars, userProfile, conversations, activeConversation,
                  subActive, newMessage, chatOpen, convReqs, convResps, sends, creates,
                  insertEvents, updateEvents, ops, convInfo,
                  returned, idVars >>

(***************************************************************************)
(* sendMessage and the chat screen's handleSendMessage.                    *)
(***************************************************************************)
\* the conversation ids a caller may pass
ConversationIds ==
  { CreateConversationId(p[1], p[2]) :
      p \in { q \in Users \X Users : q[1] # q[2] } }

\* a receiver read off the therapist slot whoever the sender is
ReceiverIdTherapist(conversationId, active, u) == active.therapist_id

\* receiverId of sendMessage: read off activeConversation
ReceiverId(conversationId, active, u) ==
  IF u = active.therapist_id THEN active.client_id ELSE active.therapist_id

\* message.trim() of the insert
InsertedBody(text) == Trim(text)

\* the insert of one sendMessage call, on its way to the store
SendRequest(conversationId, text, fromScreen) ==
  [ cid      |-> conversationId,
    active   |-> activeConversation.id,
    receiver |-> ReceiverId(conversationId, activeConversation, userProfile),
    body     |-> InsertedBody(text),
    screen   |-> fromScreen,
    phase    |-> "req",
    row      |-> 0 ]

\* sendMessage(conversationId, message) called on the context
SendMessage(conversationId, text) ==
  /\ ops < MaxOps
  /\ InFlight < MaxInFlight
  /\ conversationId \in ConversationIds
  /\ text \in Texts
  /\ activeConversation # NoConversation
  /\ sends' = Append(sends, SendRequest(conversationId, text, FALSE))
  /\ ops' = ops + 1
  /\ UNCHANGED << storeVars, clientVars, convReqs, convResps, msgLoads,
                  creates, insertEvents, updateEvents, convInfo, openDone,
                  returned, idVars >>

\* the user edits the compose input
TypeText(text) ==
  /\ chatOpen
  /\ text \in Texts
  /\ text # newMessage
  /\ ops < MaxOps
  /\ newMessage' = text
  /\ ops' = ops + 1
  /\ UNCHANGED << storeVars, userProfile, conversations, activeConversation,
                  messages, subActive, chatOpen, flightVars, convInfo, openDone,
                  returned, idVars >>

\* `if (!newMessage.trim() || !activeConversation) return` negated
PressGoesOn(text, active) == Trim(text) # << >> /\ active # NoConversation

\* the send button: handleSendMessage up to its await
HandleSendMessage ==
  /\ ops < MaxOps
  /\ InFlight < MaxInFlight
  /\ chatOpen
  /\ IF PressGoesOn(newMessage, activeConversation)
     THEN sends' = Append(sends,
                 SendRequest(activeConversation.id, newMessage, TRUE))
     ELSE UNCHANGED sends
  /\ ops' = ops + 1
  /\ UNCHANGED << storeVars, clientVars, convReqs, convResps, msgLoads,
                  creates, insertEvents, updateEvents, convInfo, openDone,
                  returned, idVars >>

\* the INSERT events the channel owes this client for a new row
\* (n counts the deliveries of the event, open those that found the
\* message's conversation the active one)
InsertEventsFor(row, u) ==
  IF row.receiver_id = u THEN { [ id |-> row.id, n |-> 0, open |-> 0 ] } ELSE {}

\* the store runs the insert of one sendMessage call
StoreInsert(k) ==
  /\ k \in DOMAIN sends
  /\ sends[k].phase = "req"
  /\ Len(dbMessages) < MaxMsgs
  /\ LET row == NewRow(dbMessages, userProfile, sends[k].receiver,
                       sends[k].body, sends[k].cid, sends[k].active)
     IN /\ dbMessages' = Append(dbMessages, row)
        /\ sends' = [ sends EXCEPT ![k].phase = "ok", ![k].row = row.id ]
        /\ insertEvents' = insertEvents \cup InsertEventsFor(row, userProfile)
  /\ UNCHANGED << clientVars, convReqs, convResps, msgLoads, creates,
                  updateEvents, ghostVars, idVars >>

\* the insert fails at the store
StoreInsertFail(k) ==
  /\ k \in DOMAIN sends
  /\ sends[k].phase = "req"
  /\ sends' = [ sends EXCEPT ![k].phase = "err" ]
  /\ UNCHANGED << storeVars, clientVars, convReqs, convResps, msgLoads,
                  creates, insertEvents, updateEvents, ghostVars, idVars >>

\* setNewMessage('') after `await sendMessage(...)`, which never throws
InputAfterSend(input, op) == << >>

\* the row the insert returned, as .select().single() read it back
ReturnedRow(op) ==
  [ id |-> op.row, sender_id |-> userProfile, receiver_id |-> op.receiver,
    message |-> op.body, read |-> FALSE, created_at |-> op.row,
    cid |-> op.cid, thru |-> op.active ]

\* sendMessage returns: the row appended on success, an alert on error;
\* then handleSendMessage goes on
SendMessageDone(k) ==
  /\ k \in DOMAIN sends
  /\ sends[k].phase # "req"
  /\ messages' = IF sends[k].phase = "ok"
                 THEN Append(messages, ReturnedRow(sends[k]))
                 ELSE messages
  /\ newMessage' = IF sends[k].screen THEN InputAfterSend(newMessage, sends[k])
                   ELSE newMessage
  /\ sends' = RemoveAt(sends, k)
  /\ UNCHANGED << storeVars, userProfile, conversations, activeConversation,
                  subActive, chatOpen, convReqs, convResps, msgLoads, creates,
                  insertEvents, updateEvents, ops, convInfo,
                  openDone, returned, idVars >>

(***************************************************************************)
(* createConversation                                                      *)
(***************************************************************************)
\* conversations.find(c => c.id === conversationId) on the list given
HasConversation(list, conversationId) ==
  \E i \in DOMAIN list : list[i].id = conversationId

\* newConversation of createConversation
NewConversation(u, otherUserId, now) ==
  [ id              |-> CreateConversationId(u, otherUserId),
    therapist_id    |-> IF Role(otherUserId) = "therapist" THEN otherUserId ELSE u,
    client_id       |-> IF Role(otherUserId) = "client" THEN otherUserId ELSE u,
    last_message_at |-> now,
    last_message    |-> 0,
    unread_count    |-> 0 ]

\* createConversation(otherUserId) up to its await of the users row; the
\* list its closure reads after the await is the list of this render
CreateConversation(otherUserId) ==
  /\ ops < MaxOps
  /\ InFlight < MaxInFlight
  /\ otherUserId \in Users
  /\ creates' = Append(creates,
       [ other   |-> otherUserId,
         existed |-> HasConversation(conversations,
                       CreateConversationId(userProfile, otherUserId)) ])
  /\ ops' = ops + 1
  /\ UNCHANGED << storeVars, clientVars, convReqs, convResps, msgLoads, sends,
                  insertEvents, updateEvents, convInfo, openDone,
                  returned, idVars >>

\* the users row cannot be read: createConversation throws
CreateConversationFail(k) ==
  /\ k \in DOMAIN creates
  /\ creates' = RemoveAt(creates, k)
  /\ UNCHANGED << storeVars, clientVars, convReqs, convResps, msgLoads, sends,
                  insertEvents, updateEvents, ghostVars, idVars >>

\* the users row arrives: return the id, after adding the provisional
\* conversation in front when the closure's list did not hold the id
CreateConversationDone(k) ==
  /\ k \in DOMAIN creates
  /\ LET other == creates[k].other
         id    == CreateConversationId(userProfile, other)
     IN /\ IF creates[k].existed
           THEN UNCHANGED << conversations, convInfo >>
           ELSE /\ conversations' =
                     << NewConversation(userProfile, other, Len(dbMessages)) >>
                     \o conversations
                /\ convInfo' = [ convInfo EXCEPT !.fromLoad = FALSE ]
        /\ returned' = returned \cup { [ other |-> other, id |-> id ] }
  /\ creates' = RemoveAt(creates, k)
  /\ UNCHANGED << storeVars, userProfile, activeConversation, messages,
                  subActive, newMessage, chatOpen, convReqs, convResps, msgLoads, sends,
                  insertEvents, updateEvents, ops, openDone, idVars >>

(***************************************************************************)
(* The other users, through the store.                                     *)
(***************************************************************************)
\* another user's client inserts a message for the signed-in user (rows
\* between two other users never pass the filters of this client's queries)
OtherSend(u) ==
  /\ u \in Users \ { userProfile }
  /\ Len(dbMessages) < MaxMsgs
  /\ ops < MaxOps
  /\ LET row == NewRow(dbMessages, u, userProfile, << "h" >>, << >>, << >>)
     IN /\ dbMessages' = Append(dbMessages, row)
        /\ insertEvents' = insertEvents \cup InsertEventsFor(row, userProfile)
  /\ ops' = ops + 1
  /\ UNCHANGED << clientVars, convReqs, convResps, msgLoads, sends, creates,
                  updateEvents, convInfo, openDone, returned, idVars >>

\* another user's client marks a message it received read
OtherRead(id) ==
  /\ id \in DOMAIN dbMessages
  /\ dbMessages[id].receiver_id # userProfile
  /\ ~dbMessages[id].read
  /\ dbMessages' = UpdateRead(dbMessages, id)
  /\ updateEvents' = updateEvents \cup UpdateEventsFor(dbMessages[id], userProfile)
  /\ UNCHANGED << clientVars, convReqs, convResps, msgLoads, sends, creates,
                  insertEvents, ghostVars, idVars >>

(***************************************************************************)
(* The real-time handlers.                                                 *)
(***************************************************************************)
\* payload.new of the INSERT event of row id
InsertPayload(id) == [ dbMessages[id] EXCEPT !.read = FALSE ]

\* the INSERT handler runs for an event
HandleInsert(e) ==
  /\ e \in insertEvents
  /\ e.n < MaxDeliveries
  /\ e.n = 0 => ops < MaxOps
  /\ InFlight < MaxInFlight
  /\ LET newMsg == InsertPayload(e.id)
         expectedConversationId == InsertHandlerId(userProfile, newMsg.sender_id)
     IN messages' = IF /\ subActive # NoConversation
                       /\ subActive.id = expectedConversationId
                    THEN Append(messages, newMsg)
                    ELSE messages
  /\ convReqs' = convReqs + 1
  /\ insertEvents' = (insertEvents \ { e }) \cup
       { [ e EXCEPT !.n = @ + 1,
                    !.open = IF /\ activeConversation # NoConversation
                                /\ activeConversation.id =
                                     InsertHandlerId(userProfile,
                                                     dbMessages[e.id].sender_id)
                             THEN @ + 1 ELSE @ ] }
  /\ ops' = IF e.n = 0 THEN ops + 1 ELSE ops
  /\ UNCHANGED << storeVars, userProfile, conversations, activeConversation,
                  subActive, newMessage, chatOpen, convResps, msgLoads, sends, creates,
                  updateEvents, convInfo, openDone, returned, idVars >>

\* the UPDATE handler runs for an event
HandleUpdate(e) ==
  /\ e \in updateEvents
  /\ e.n < MaxDeliveries
  /\ e.n = 0 => ops < MaxOps
  /\ messages' = IF subActive # NoConversation
                 THEN PatchRead(messages, e.id, TRUE)
                 ELSE messages
  /\ updateEvents' = (updateEvents \ { e }) \cup { [ e EXCEPT !.n = @ + 1 ] }
  /\ ops' = IF e.n = 0 THEN ops + 1 ELSE ops
  /\ UNCHANGED << storeVars, userProfile, conversations, activeConversation,
                  subActive, newMessage, chatOpen, convReqs, convResps, msgLoads, sends,
                  creates, insertEvents, convInfo, openDone,
                  returned, idVars >>

(***************************************************************************)
(* The messaging layer as a whole.                                         *)
(***************************************************************************)
Next ==
  \/ Refresh
  \/ StoreSelectConversations
  \/ LoadConversationsFail
  \/ \E i \in DOMAIN convResps : LoadConversationsDone(i)
  \/ ProfileChanged
  \/ \E c \in Range(conversations) : OpenConversation(c)
  \/ CloseConversation
  \/ \E cid \in StrayConversationIds : LoadMessages(cid)
  \/ \E i \in DOMAIN msgLoads : StoreSelectMessages(i)
  \/ \E i \in DOMAIN msgLoads : LoadMessagesFail(i)
  \/ \E i \in DOMAIN msgLoads : LoadMessagesResponse(i)
  \/ \E i \in DOMAIN msgLoads : \E mk \in msgLoads[i].marks : StoreMarkRead(i, mk)
  \/ \E i \in DOMAIN msgLoads : \E mk \in msgLoads[i].marks : StoreMarkFail(i, mk)
  \/ \E i \in DOMAIN msgLoads : \E mk \in msgLoads[i].marks : MarkAsReadDone(i, mk)
  \/ \E cid \in ConversationIds : \E t \in Texts : SendMessage(cid, t)
  \/ \E t \in Texts : TypeText(t)
  \/ HandleSendMessage
  \/ \E k \in DOMAIN sends : StoreInsert(k)
  \/ \E k \in DOMAIN sends : StoreInsertFail(k)
  \/ \E k \in DOMAIN sends : SendMessageDone(k)
  \/ \E o \in Users : CreateConversation(o)
  \/ \E k \in DOMAIN creates : CreateConversationFail(k)
  \/ \E k \in DOMAIN creates : CreateConversationDone(k)
  \/ \E u \in Users : OtherSend(u)
  \/ \E id \in DOMAIN dbMessages : OtherRead(id)
  \/ \E e \in insertEvents : HandleInsert(e)
  \/ \E e \in updateEvents : HandleUpdate(e)

Spec == Init /\ [][Next]_vars

(***************************************************************************)
(* loadConversations over any message table: the store holds any rows of   *)
(* any users, and the mounted provider's first load runs against it.       *)
(***************************************************************************)
\* the rows a table may hold at one position; created_at defaults to the
\* store's clock, which may give a row the timestamp of the row before it
RowsAt(i) ==
  { [ id |-> i, sender_id |-> s, receiver_id |-> r, message |-> << "h" >>,
      read |-> rd, created_at |-> t, cid |-> << >>, thru |-> << >> ] :
    s \in Users, r \in Users, rd \in BOOLEAN, t \in { i - 1, i } \ { 0 } }

\* the message tables of n rows
RECURSIVE Tables(_)
Tables(n) ==
  IF n = 0 THEN { << >> }
  ELSE { Append(t, row) : t \in Tables(n - 1), row \in RowsAt(n) }

AnyTable == UNION { Tables(n) : n \in 0..MaxMsgs }

InitAgg ==
  /\ dbMessages \in AnyTable
  /\ \E u \in Users : Mounted(u)
  /\ IdInit

NextAgg ==
  \/ StoreSelectConversations
  \/ LoadConversationsFail
  \/ \E i \in DOMAIN convResps : LoadConversationsDone(i)

SpecAgg == InitAgg /\ [][NextAgg]_vars

(***************************************************************************)
(* The id derivation on its own: two participant ids drawn from the        *)
(* characters of a uuid, the id derived at the three places, and the id    *)
(* taken apart as loadMessages does.                                       *)
(***************************************************************************)
\* characters of a uuid the model draws from
IdChars == { "-", "1", "a", "b" }

RECURSIVE IdsOfLen(_)
IdsOfLen(n) ==
  IF n = 0 THEN { << >> }
  ELSE { Append(s, c) : s \in IdsOfLen(n - 1), c \in IdChars }

Ids == UNION { IdsOfLen(n) : n \in 1..MaxIdLen }

InitId ==
  /\ dbMessages = << >>
  /\ Mounted(U1)
  /\ idA \in Ids
  /\ idB \in Ids
  /\ idPc = "start"
  /\ idSites = << >>
  /\ idParts = << >>

\* the conversation id of the pair, derived at each place and both ways round
DeriveIds ==
  /\ idPc = "start"
  /\ idSites' = << LoadConversationsId(idA, idB), CreateConversationId(idA, idB),
                   InsertHandlerId(idA, idB),
                   LoadConversationsId(idB, idA), CreateConversationId(idB, idA),
                   InsertHandlerId(idB, idA) >>
  /\ idPc' = "derived"
  /\ UNCHANGED << storeVars, clientVars, flightVars, ghostVars, idA, idB, idParts >>

\* loadMessages takes apart the id createConversation returned
DecomposeId ==
  /\ idPc = "derived"
  /\ idParts' = DecomposeConversationId(idSites[2])
  /\ idPc' = "decomposed"
  /\ UNCHANGED << storeVars, clientVars, flightVars, ghostVars, idA, idB, idSites >>

NextId == DeriveIds \/ DecomposeId

SpecId == InitId /\ [][NextId]_vars

(***************************************************************************)
(* Properties.                                                             *)
(***************************************************************************)
NoDuplicateIds(list) ==
  \A i, j \in DOMAIN list : i # j => list[i].id # list[j].id

TotalUnread(list) ==
  SumSeq([ i \in DOMAIN list |-> list[i].unread_count ])

\* the rows of table db addressed to u and not read
UnreadRowsFor(db, u) ==
  { i \in DOMAIN db : db[i].receiver_id = u /\ ~db[i].read }

\* C1: the list loadConversations produces from any message table has no
\* two entries with the same conversation id, and its unread counts add up
\* to the number of rows of the table addressed to the user and unread
C1_LoadConversationsTotals ==
  convInfo.fromLoad =>
    /\ NoDuplicateIds(conversations)
    /\ TotalUnread(conversations)
         = Cardinality(UnreadRowsFor(convInfo.db, userProfile))

\* a load over a table with two conversations, unread rows for the user,
\* and an unread row the user sent
C1_Witness ==
  /\ convInfo.fromLoad
  /\ Len(conversations) >= 2
  /\ TotalUnread(conversations) >= 1
  /\ \E i \in DOMAIN convInfo.db :
       /\ convInfo.db[i].sender_id = userProfile
       /\ convInfo.db[i].receiver_id # userProfile
       /\ ~convInfo.db[i].read

\* C3: for participant ids A # B the id derived from (A, B) equals the id
\* derived from (B, A) in loadConversations' grouping, in createConversation
\* and in the INSERT handler, and the three places agree
C3_DerivedIdSymmetric ==
  (idPc \in { "derived", "decomposed" } /\ idA # idB) =>
    \A i, j \in DOMAIN idSites : idSites[i] = idSites[j]

\* a pair derived whose second id sorts first, one id a prefix of the other
C3_Witness ==
  /\ idPc = "derived"
  /\ idA # idB
  /\ StrLess(idB, idA)
  /\ Len(idA) > Len(idB)
  /\ SubSeq(idA, 1, Len(idB)) = idB

\* C4: for participant ids A # B, removing the prefix from the derived id
\* and splitting at the separator, as loadMessages does, gives back two
\* parts that are exactly A and B
C4_DecomposeRoundTrip ==
  (idPc = "decomposed" /\ idA # idB) =>
    /\ Len(idParts) = 2
    /\ Range(idParts) = { idA, idB }

\* an id taken apart whose participants hold hyphens and came out swapped
C4_Witness ==
  /\ idPc = "decomposed"
  /\ idA # idB
  /\ idParts = << idB, idA >>
  /\ \E k \in DOMAIN idA : idA[k] = "-"

(***************************************************************************)
(* Opening a conversation and the list loaded afterwards (Spec).           *)
(***************************************************************************)
\* the entries of list with the given conversation id
EntriesOf(list, conversationId) ==
  { i \in DOMAIN list : list[i].id = conversationId }

\* the rows of table db that user u and user o exchanged
RowsBetween(db, u, o) ==
  { i \in DOMAIN db : { db[i].sender_id, db[i].receiver_id } = { u, o } }

\* the rows of db stored after the first upto ones, addressed to u, that
\* belong to the conversation conversationId
ArrivedSince(db, upto, u, conversationId) ==
  { i \in DOMAIN db :
      /\ i > upto
      /\ db[i].receiver_id = u
      /\ LoadConversationsId(u, db[i].sender_id) = conversationId }

Copies(list, id) == Cardinality({ k \in DOMAIN list : list[k].id = id })

\* C5 as stated, in its weaker half (no second copy): when the INSERT
\* event of a message was delivered twice while the message's conversation
\* was the open one, the message list holds the message at most once
C5_RedeliveredInsertOneCopy ==
  \A e \in insertEvents :
    ( /\ e.open >= 2
      /\ activeConversation # NoConversation
      /\ activeConversation.id =
           InsertHandlerId(userProfile, dbMessages[e.id].sender_id) ) =>
      Copies(messages, e.id) <= 1

(***************************************************************************)
(* sendMessage (Spec).                                                     *)
(***************************************************************************)
\* the rows of db that a sendMessage call of this client inserted
SentRows(db) == { i \in DOMAIN db : db[i].cid # << >> }

\* C6 as stated: a sendMessage call whose body is empty or only whitespace
\* persists nothing and appends nothing, so no row this client sent and no
\* entry of the message list it appended has an empty body
C6_BlankBodyNotSent ==
  /\ \A i \in SentRows(dbMessages) : dbMessages[i].message # << >>
  /\ \A k \in DOMAIN messages :
       messages[k].cid # << >> => messages[k].message # << >>

\* C7 as stated: when the send the chat screen awaits failed at the store,
\* the compose input is as it was when the call returns
C7_FailedSendKeepsInput ==
  [][ \A k \in DOMAIN sends :
        (sends[k].phase = "err" /\ sends[k].screen /\ SendMessageDone(k))
          => newMessage' = newMessage ]_vars

\* C8 as stated: the receiver of a row that sendMessage(conversationId, ..)
\* persisted is the participant of conversationId that is not the sender,
\* and nothing is persisted when the sender is not a participant of it
C8_ReceiverFromConversationId ==
  \A i \in SentRows(dbMessages) :
    /\ Len(DecomposeConversationId(dbMessages[i].cid)) = 2
    /\ Range(DecomposeConversationId(dbMessages[i].cid))
         = { dbMessages[i].sender_id, dbMessages[i].receiver_id }

(***************************************************************************)
(* createConversation (Spec).                                              *)
(***************************************************************************)
\* the rows of db the user sent through the conversation conversationId:
\* the conversation was the active one and its id was the one passed
SentThrough(db, u, conversationId) ==
  { i \in SentRows(db) :
      /\ db[i].sender_id = u
      /\ db[i].cid = conversationId
      /\ db[i].thru = conversationId }

\* the newest row of a non-empty set of rows
Newest(rows) == CHOOSE i \in rows : \A j \in rows : j <= i

\* C9: the id createConversation(U2) returned to U1 # U2 is the derived id
\* of { U1, U2 }; and once U1 has sent a message through that conversation,
\* a list loaded from a table holding the message has exactly one entry
\* with that id, whose last_message is set: to the newest row the two
\* exchanged, which is the message sent when it is their first
C9_CreatedConversationListedOnce ==
  \A r \in returned :
    r.other # userProfile =>
      /\ r.id = LoadConversationsId(userProfile, r.other)
      /\ r.id = LoadConversationsId(r.other, userProfile)
      /\ ( /\ convInfo.fromLoad
           /\ SentThrough(convInfo.db, userProfile, r.id) # {} ) =>
           /\ Cardinality(EntriesOf(conversations, r.id)) = 1
           /\ \A i \in EntriesOf(conversations, r.id) :
                /\ conversations[i].last_message # 0
                /\ conversations[i].last_message
                     = Newest(RowsBetween(convInfo.db, userProfile, r.other))

\* a conversation was created while the two had exchanged nothing, the
\* user sent its first message through it, and a list loaded afterwards
\* shows it once with that message as last_message
C9_Witness ==
  \E r \in returned :
    /\ r.other # userProfile
    /\ convInfo.fromLoad
    /\ SentThrough(convInfo.db, userProfile, r.id) # {}
    /\ RowsBetween(convInfo.db, userProfile, r.other)
         = SentThrough(convInfo.db, userProfile, r.id)
    /\ \E i \in EntriesOf(conversations, r.id) :
         conversations[i].last_message
           \in SentThrough(convInfo.db, userProfile, r.id)

\* C10 as stated: whatever createConversation calls for a pair were made,
\* one after the other or overlapping, the list holds at most one
\* conversation with the id they returned
C10_CreateConversationIdempotent ==
  \A r \in returned : Cardinality(EntriesOf(conversations, r.id)) <= 1

(***************************************************************************)
(* markAsRead (Spec).                                                      *)
(***************************************************************************)
\* every entry of list that carries message id is flagged read
ReadInList(list, id) ==
  \A k \in DOMAIN list : list[k].id = id => list[k].read

\* list2 is list1 but for the read flag of the entries of message id
SameButRead(list1, list2, id) ==
  /\ Len(list2) = Len(list1)
  /\ \A k \in DOMAIN list1 :
       IF list1[k].id = id
       THEN list2[k] = [ list1[k] EXCEPT !.read = list2[k].read ]
       ELSE list2[k] = list1[k]

\* C11: a markAsRead(m) call whose update the store runs leaves m read in
\* the store and, when it returns, in the open message list, and touches
\* no other row and no other entry; when m was read already (a second
\* call) the store's table and the message list are left exactly as they
\* were
C11_MarkAsReadIdempotent ==
  [][ \A i \in DOMAIN msgLoads : \A mk \in msgLoads[i].marks :
        /\ StoreMarkRead(i, mk) =>
             /\ dbMessages'[mk.id].read
             /\ SameButRead(dbMessages, dbMessages', mk.id)
             /\ dbMessages[mk.id].read => dbMessages' = dbMessages
        /\ (mk.st = "ok" /\ MarkAsReadDone(i, mk)) =>
             /\ dbMessages'[mk.id].read
             /\ ReadInList(messages', mk.id)
             /\ SameButRead(messages, messages', mk.id)
             /\ ReadInList(messages, mk.id) => messages' = messages ]_vars

\* a first markAsRead of a message has returned and patched the list, and
\* the update of a second markAsRead of the same message has run
C11_Witness ==
  \E i \in DOMAIN msgLoads : \E mk \in msgLoads[i].marks :
    /\ mk.st = "ok"
    /\ openDone.clean
    /\ mk.id \in openDone.fetched
    /\ Copies(messages, mk.id) >= 1
    /\ ReadInList(messages, mk.id)
    /\ dbMessages[mk.id].read

(***************************************************************************)
(* The entries of a loaded list (SpecAgg).                                 *)
(***************************************************************************)
\* C12: every entry of a list loadConversations produced is the
\* conversation of the user with some other user who exchanged rows with
\* it; its last_message is one of those rows, none of them has a greater
\* created_at, last_message_at is that row's created_at, and unread_count
\* is the number of those rows addressed to the user and not read
C12_EntryLastMessageAndUnread ==
  convInfo.fromLoad =>
    \A i \in DOMAIN conversations :
      \E o \in Users :
        LET c    == conversations[i]
            rows == RowsBetween(convInfo.db, userProfile, o)
        IN /\ c.id = LoadConversationsId(userProfile, o)
           /\ c.last_message \in rows
           /\ c.last_message_at = convInfo.db[c.last_message].created_at
           /\ \A j \in rows : convInfo.db[j].created_at <= c.last_message_at
           /\ c.unread_count
                = Cardinality(rows \cap UnreadRowsFor(convInfo.db, userProfile))

\* a list loaded from a table in which a pair exchanged several rows at
\* different times, one of them unread for the user and one unread for
\* the other
C12_Witness ==
  /\ convInfo.fromLoad
  /\ \E i \in DOMAIN conversations : \E o \in Users \ { userProfile } :
       LET rows == RowsBetween(convInfo.db, userProfile, o)
       IN /\ conversations[i].id = LoadConversationsId(userProfile, o)
          /\ Cardinality(rows) >= 2
          /\ conversations[i].unread_count = 1
          /\ \E j \in rows :
               convInfo.db[j].created_at < conversations[i].last_message_at
          /\ \E j \in rows : /\ convInfo.db[j].receiver_id = o
                             /\ ~convInfo.db[j].read

(***************************************************************************)
(* The role slots of a conversation (Spec).                                *)
(***************************************************************************)
\* C13 as stated: in every conversation of the list, built by
\* loadConversations or by createConversation, the therapist slot holds a
\* participant whose role is therapist and the client slot one whose role
\* is client
C13_RoleSlots ==
  \A i \in DOMAIN conversations :
    /\ Role(conversations[i].therapist_id) = "therapist"
    /\ Role(conversations[i].client_id) = "client"

(***************************************************************************)
(* The order of a loaded list (SpecAgg).                                   *)
(***************************************************************************)
\* C14: in a list loadConversations produced, no entry has a smaller
\* last_message_at than the entry after it
C14_SortedByLastMessageAt ==
  convInfo.fromLoad =>
    \A i \in DOMAIN conversations :
      i < Len(conversations) =>
        conversations[i].last_message_at
          >= conversations[i + 1].last_message_at

\* a loaded list of two conversations whose last messages differ in time,
\* the older one being the conversation of the smaller id
C14_Witness ==
  /\ convInfo.fromLoad
  /\ Len(conversations) = 2
  /\ conversations[1].last_message_at > conversations[2].last_message_at
  /\ StrLess(conversations[2].id, conversations[1].id)

(***************************************************************************)
(* Failed loads (Spec).                                                    *)
(***************************************************************************)
\* C15: a loadConversations call or a loadMessages call whose query fails
\* at the store leaves the conversation list and the message list as they
\* were
C15_FailedLoadKeepsLists ==
  [][ /\ LoadConversationsFail =>
           conversations' = conversations /\ messages' = messages
      /\ \A i \in DOMAIN msgLoads :
           LoadMessagesFail(i) =>
             conversations' = conversations /\ messages' = messages ]_vars

\* with a conversation list and a message list loaded, a loadConversations
\* call has failed and the last loadMessages call ended on a failed query
C15_Witness ==
  /\ convInfo.fromLoad
  /\ convInfo.failed
  /\ conversations # << >>
  /\ messages # << >>
  /\ openDone = [ conv |-> openDone.conv, clean |-> FALSE, upto |-> 0,
                  fetched |-> {} ]
  /\ QueryIssued(openDone.conv, userProfile)

(***************************************************************************)
(* loadMessages and the id it is given (Spec).                             *)
(***************************************************************************)
\* C16 as stated: loadMessages issues no store query for a conversation id
\* that does not come apart into exactly two distinct participant ids, so
\* every call that got as far as its query was given such an id
C16_MalformedIdNoQuery ==
  \A i \in DOMAIN msgLoads :
    LET userIds == DecomposeConversationId(msgLoads[i].conv)
    IN /\ Len(userIds) = 2
       /\ userIds[1] # userIds[2]

(***************************************************************************)
(* Opening and closing the chat screen (Spec).                             *)
(***************************************************************************)
\* C19 as stated, in its closing half: while the chat screen is closed no
\* conversation is the active one
C19_CloseClearsActive ==
  ~chatOpen => activeConversation = NoConversation

(***************************************************************************)
(* Conversations of a user with itself (Spec).                             *)
(***************************************************************************)
\* C17 as stated: no conversation whose two participants are the same user
\* is ever in the conversation list
C17_NoSelfConversation ==
  \A i \in DOMAIN conversations :
    conversations[i].therapist_id # conversations[i].client_id

(***************************************************************************)
(* What the caller of loadConversations gets (Spec).                       *)
(***************************************************************************)
\* C18 as stated, in its first half: when the last loadConversations call
\* that ended had failed at the store, its caller got a failure (the
\* promise was rejected)
C18_FailedLoadSurfaced ==
  convInfo.failed => convInfo.outcome = "rejected"

(***************************************************************************)
(* The INSERT handler and the conversation that is open (Spec).            *)
(***************************************************************************)
\* C20 as stated: when the INSERT handler runs for a message whose derived
\* conversation id is the id of the conversation open at that moment, the
\* message is appended to the message list, whenever the conversation was
\* opened
C20_InsertAppendedToOpenConversation ==
  [][ \A e \in insertEvents :
        ( /\ HandleInsert(e)
          /\ chatOpen
          /\ activeConversation # NoConversation
          /\ activeConversation.id =
               InsertHandlerId(userProfile, dbMessages[e.id].sender_id) )
          => messages' = Append(messages, InsertPayload(e.id)) ]_vars

(***************************************************************************)
(* The UPDATE handler (Spec).                                              *)
(***************************************************************************)
\* C21 as stated: when the UPDATE handler runs for a message the user sent
\* and the message list holds a message with that id, the read flag of
\* that message in the list becomes the event's value (read) and nothing
\* else in the list changes
C21_UpdatePatchesOpenList ==
  [][ \A e \in updateEvents :
        (HandleUpdate(e) /\ Copies(messages, e.id) >= 1) =>
          /\ ReadInList(messages', e.id)
          /\ SameButRead(messages, messages', e.id) ]_vars

(***************************************************************************)
(* The message list under interleavings (Spec).                            *)
(***************************************************************************)
\* C22 as stated: whatever the interleaving of loadMessages fetches, sends
\* and INSERT events, no two entries of the message list have the same
\* message id
C22_NoDuplicateMessages ==
  \A k1, k2 \in DOMAIN messages :
    k1 # k2 => messages[k1].id # messages[k2].id

\* C23 as stated: the response of a loadMessages call for a conversation
\* of the list that is not the active conversation when it arrives is
\* discarded, the message list stays as it is
C23_StaleLoadDiscarded ==
  [][ \A i \in DOMAIN msgLoads :
        ( /\ LoadMessagesResponse(i)
          /\ HasConversation(conversations, msgLoads[i].conv)
          /\ activeConversation # NoConversation
          /\ activeConversation.id # msgLoads[i].conv )
          => messages' = messages ]_vars

\* C24 as stated: a message of the list that the user sent in the
\* conversation that is open is still in the list after the response of a
\* loadMessages call has been taken in
C24_SentMessageKept ==
  [][ \A i \in DOMAIN msgLoads :
        LoadMessagesResponse(i) =>
          \A k \in DOMAIN messages :
            ( /\ chatOpen
              /\ messages[k].sender_id = userProfile
              /\ messages[k].cid # << >>
              /\ messages[k].thru = activeConversation.id )
              => Copies(messages', messages[k].id) >= 1 ]_vars

\* C25 as stated: of two sends of one conversation that are both in
\* flight (sends keeps them in the order the calls were issued), the store
\* never runs the insert of the earlier one after the insert of the later
\* one, and the response of the later one is never appended to the list
\* while the row of the earlier one is stored but not yet in the list
C25_SendsInIssueOrder ==
  [][ \A j, k \in DOMAIN sends :
        ( /\ j < k
          /\ sends[j].active = sends[k].active
          /\ sends[j].receiver = sends[k].receiver )
          => /\ ~ ( StoreInsert(j) /\ sends[k].phase = "ok" )
             /\ ~ ( /\ SendMessageDone(k)
                    /\ sends[k].phase = "ok"
                    /\ sends[j].phase = "ok"
                    /\ Copies(messages, sends[j].row) = 0 ) ]_vars

(***************************************************************************)
(* A failing markAsRead (Spec).                                            *)
(***************************************************************************)
\* C26: a markAsRead update that fails at the store changes neither the
\* table nor the message list, so the message is as unread in both as it
\* was; when the failed call returns, the list stays as loadMessages set
\* it, the other markAsRead calls of the load stay in flight, and the load
\* ends when the last of them has returned
C26_FailedMarkLeavesUnread ==
  [][ \A i \in DOMAIN msgLoads : \A mk \in msgLoads[i].marks :
        /\ StoreMarkFail(i, mk) =>
             /\ dbMessages' = dbMessages
             /\ messages' = messages
        /\ (mk.st = "err" /\ MarkAsReadDone(i, mk)) =>
             /\ dbMessages' = dbMessages
             /\ messages' = messages
             /\ IF msgLoads[i].marks = { mk }
                THEN /\ Len(msgLoads') = Len(msgLoads) - 1
                     /\ openDone'.conv = msgLoads[i].conv
                ELSE /\ Len(msgLoads') = Len(msgLoads)
                     /\ msgLoads'[i].marks = msgLoads[i].marks \ { mk }
                     /\ msgLoads'[i].data = msgLoads[i].data ]_vars

\* a load whose rows are displayed has ended with a failed markAsRead, and
\* a message it fetched is unread in the table and unread in the list
C26_Witness ==
  /\ openDone.fetched # {}
  /\ ~ openDone.clean
  /\ \E id \in openDone.fetched :
       /\ ~ dbMessages[id].read
       /\ \E k \in DOMAIN messages :
            messages[k].id = id /\ ~ messages[k].read

(***************************************************************************)
(* Rows sent, the order of the open list, provisional conversations (Spec). *)
(***************************************************************************)
\* C27 as stated: every row a sendMessage call of this client persisted
\* has a receiver that is not its sender
C27_SenderIsNotReceiver ==
  \A i \in SentRows(dbMessages) :
    dbMessages[i].sender_id # dbMessages[i].receiver_id

\* C28 as stated: in every reachable state the created_at of the entries
\* of the message list never decreases from one entry to the next
C28_MessagesOldestFirst ==
  \A k \in DOMAIN messages :
    k < Len(messages) => messages[k].created_at <= messages[k + 1].created_at

\* C29 as stated: a conversation createConversation returned to the user
\* is in the conversation list as long as the table holds no row the user
\* and the other participant exchanged and no send of the user is in flight
C29_ProvisionalConversationKept ==
  \A r \in returned :
    ( /\ RowsBetween(dbMessages, userProfile, r.other) = {}
      /\ sends = << >>
      /\ r.id = CreateConversationId(userProfile, r.other) )
      => HasConversation(conversations, r.id)

(***************************************************************************)
(* Unread counts after a conversation was opened: the steps that follow    *)
(* without the user refreshing the list. Every awaited query, update and   *)
(* response, and every realtime event, is eventually handled; the users'   *)
(* own steps (a message of another user, opening a conversation) may       *)
(* never happen.                                                           *)
(***************************************************************************)
\* the steps the store, the channel and the awaited calls take on their
\* own once a call or an event is pending
SystemLive ==
  \/ StoreSelectConversations
  \/ \E i \in DOMAIN msgLoads : StoreSelectMessages(i)
  \/ \E i \in DOMAIN msgLoads : LoadMessagesResponse(i)
  \/ \E i \in DOMAIN msgLoads : \E mk \in msgLoads[i].marks : StoreMarkRead(i, mk)
  \/ \E i \in DOMAIN msgLoads : \E mk \in msgLoads[i].marks : StoreMarkFail(i, mk)
  \/ \E i \in DOMAIN msgLoads : \E mk \in msgLoads[i].marks : MarkAsReadDone(i, mk)
  \/ \E e \in insertEvents : HandleInsert(e)

\* a response of a loadConversations query is taken in
LoadConversationsReturns ==
  \E i \in DOMAIN convResps : LoadConversationsDone(i)

NextLive ==
  \/ \E u \in Users : OtherSend(u)
  \/ \E c \in Range(conversations) : OpenConversation(c)
  \/ SystemLive
  \/ LoadConversationsReturns

\* weak fairness of LoadConversationsReturns, its enabling condition (a
\* response is pending) written out
LoadConversationsFair ==
  \/ []<>(convResps = << >>)
  \/ []<><< LoadConversationsReturns >>_vars

SpecLive ==
  Init /\ [][NextLive]_vars /\ WF_vars(SystemLive) /\ LoadConversationsFair

\* a loadMessages call that fetched unread rows has ended with every
\* markAsRead succeeding, and every INSERT event has been delivered
OpenedAndMarked ==
  /\ openDone.clean
  /\ openDone.fetched # {}
  /\ \A e \in insertEvents : e.n >= 1

\* the list shows no unread message for the conversation opened last, or
\* a message of that conversation arrived after its rows were fetched
ShownUnreadDrained ==
  \/ \A i \in EntriesOf(conversations, openDone.conv) :
       conversations[i].unread_count = 0
  \/ ArrivedSince(dbMessages, openDone.upto, userProfile, openDone.conv) # {}

\* C30 as stated: once a conversation was opened and all its markAsRead
\* calls succeeded, the unread_count the conversation list shows for it is
\* eventually 0 (unless a newer message arrived), with no refresh by the
\* user
C30_UnreadCountDrains == OpenedAndMarked ~> ShownUnreadDrained

=============================================================================
